---- MODULE Spec2Model ----
(***************************************************************************)
(* Job queue and worker subsystem of product-attention-insights.           *)
(*                                                                         *)
(* The store (InsightJob, Run, ProductInsight rows) is shared by worker    *)
(* processes (scripts/worker.ts) and request handlers                      *)
(* (routes/app.insights.tsx).  Every awaited store operation is one atomic *)
(* step; everything between two awaits is local to the process.  The two   *)
(* statements of the interactive transaction of claimNextJob are separate  *)
(* steps: the fenced updateMany is what the code relies on, not the        *)
(* isolation level of the backing store.                                   *)
(*                                                                         *)
(* The app/uninstalled webhook (routes/webhooks.app.uninstalled.tsx) is a  *)
(* third kind of process on the same store, and the signal helpers of      *)
(* insights/signals.server.ts are operators applied by the loader.         *)
(***************************************************************************)
EXTENDS Integers, Sequences, FiniteSets, TLC

\* ---------------------------------------------------------------- bounds
MaxJobs == 2          \* InsightJob rows ever created by requests
MaxRuns == 1          \* Run rows ever created by requests
MaxBatch == 2         \* product ids submitted in one batch request
MaxTicks == 1         \* millisecond ticks of the wall clock
MaxQueued == 2        \* jobs queued before the workers start
MaxQty == 12          \* largest inventory quantity (and its negative) tried
MaxSubmitted == 12    \* product ids submitted in one large batch request
MaxAttemptIndex == 60 \* largest attempt index passed to getBackoffMs

\* ------------------------------------------------------ program constants
MAX_ATTEMPTS == 3
BACKOFF_MS == <<2000, 5000, 10000>>
BATCH_MAX == 10
EmptyPollsPerReconcile == 5
ErrorSliceLen == 500
LOW_INVENTORY_THRESHOLD == 10
\* confidence scores are kept in hundredths: 0.5 is 50
BaseScore == 50
SignalBonus == 15
RecencyBonus == 5
RecencyDays == 365
MinScore == 10
MaxScore == 95
NoScore == -1         \* no score computed yet
NoDelay == -1         \* no backoff delay computed yet

Workers == {"w1", "w2", "w3"}       \* worker processes (npm run worker)
Handlers == {"h1", "h2"}            \* concurrent requests to /app/insights
Shops == {"s1"}
Products == {"p1", "p2", "p3"}
RequestProducts == {"p1"}           \* product ids the requests carry

NoRun == 0            \* runId null
NoJob == 0
NoTime == -1          \* nextRetryAt / completedAt null

Deliveries == {"d1", "d2"}          \* deliveries of the app/uninstalled webhook
WebhookIds == {"e1"}                \* values of x-shopify-webhook-id
NoWebhookId == "none"               \* the header is absent
OtherShop == "s2"                   \* a shop that is not uninstalled

\* An error text is kept as its kind and its length.
NoError == [kind |-> "null", len |-> 0]
SupersededError == [kind |-> "Superseded by regenerate", len |-> 24]
InsightNotFoundError == [kind |-> "ProductInsight not found", len |-> 24]
\* lengths of the messages an executor failure may carry
ErrorLens == {600}
\* ... in the specification of the retries: short, at the limit and beyond
MessageLens == {40, 500, 600}

VARIABLES
  now,          \* wall clock in ms (new Date(), Date.now())
  ticks,        \* number of clock advances so far
  jobs,         \* InsightJob table: id -> row
  nextJobId,
  runs,         \* Run table: id -> row
  nextRunId,
  insights,     \* ProductInsight table: <<shop, productId>> -> row
  pc,           \* worker -> position in main/tick/claimNextJob/processJob
  wl,           \* worker -> locals
  hpc,          \* handler -> position in action/enqueueBatch/enqueueInsightJob
  hl,           \* handler -> locals
  completedWrites, \* history: run id -> number of writes of completedAt
  delays,       \* history: job id -> backoff delays scheduled for its retries
  webhookEvents, \* WebhookEvent table: the webhookId values recorded
  sessions,     \* Session table: the shops that have session rows
  whpc,         \* webhook delivery -> position in the app/uninstalled action
  whl,          \* webhook delivery -> locals
  sig           \* inputs and results of the signal helpers

vars == <<now, ticks, jobs, nextJobId, runs, nextRunId, insights, pc, wl,
          hpc, hl, completedWrites, delays, webhookEvents, sessions, whpc,
          whl, sig>>

storeVars == <<jobs, nextJobId, runs, nextRunId, insights>>
handlerVars == <<hpc, hl>>
workerVars == <<pc, wl>>
clockVars == <<now, ticks>>
uninstallVars == <<webhookEvents, sessions, whpc, whl>>
otherVars == <<uninstallVars, sig>>

\* ------------------------------------------------------------- helpers
Min(a, b) == IF a <= b THEN a ELSE b

Max(a, b) == IF a >= b THEN a ELSE b

Key(shop, productId) == <<shop, productId>>

\* mutant: the message is stored whole
SliceNothing(msg, n) == msg

\* String.prototype.slice(0, n)
Slice(msg, n) == [msg EXCEPT !.len = Min(msg.len, n)]

\* mutant: the table is indexed by the attempts count, not by attempts - 1
getBackoffMsByAttempts(attemptIndex) ==
  LET i == Min(attemptIndex + 1, Len(BACKOFF_MS) - 1)
  IN  IF i >= 0 /\ i < Len(BACKOFF_MS) THEN BACKOFF_MS[i + 1] ELSE 10000

\* mutant: the index wraps around the table instead of being clamped
getBackoffMsWraps(attemptIndex) ==
  LET i == attemptIndex % Len(BACKOFF_MS)
  IN  IF i >= 0 /\ i < Len(BACKOFF_MS) THEN BACKOFF_MS[i + 1] ELSE 10000

getBackoffMs(attemptIndex) ==
  LET i == Min(attemptIndex, Len(BACKOFF_MS) - 1)
  IN  IF i >= 0 /\ i < Len(BACKOFF_MS) THEN BACKOFF_MS[i + 1] ELSE 10000

IsActive(j) == jobs[j].status \in {"QUEUED", "RUNNING"}

ActiveJobs(shop, productId) ==
  {j \in DOMAIN jobs : jobs[j].shop = shop /\ jobs[j].productId = productId
                        /\ IsActive(j)}

\* mutant: a job waiting for its retry instant is never eligible
EligibleOnlyFresh(j) ==
  /\ jobs[j].status = "QUEUED"
  /\ jobs[j].nextRetryAt = NoTime

\* where-clause of the findFirst of claimNextJob
Eligible(j) ==
  /\ jobs[j].status = "QUEUED"
  /\ (jobs[j].nextRetryAt = NoTime \/ jobs[j].nextRetryAt <= now)

\* mutant: orderBy createdAt desc
CandidatesNewest ==
  {j \in DOMAIN jobs : Eligible(j) /\
     \A k \in DOMAIN jobs : Eligible(k) => jobs[j].createdAt >= jobs[k].createdAt}

\* findFirst ... orderBy createdAt asc: any row with the least createdAt
Candidates ==
  {j \in DOMAIN jobs : Eligible(j) /\
     \A k \in DOMAIN jobs : Eligible(k) => jobs[j].createdAt <= jobs[k].createdAt}

NewJob(shop, productId, runId) ==
  [shop |-> shop, productId |-> productId, runId |-> runId,
   status |-> "QUEUED", attempts |-> 0, lastError |-> NoError,
   nextRetryAt |-> NoTime, createdAt |-> now, updatedAt |-> now]

NewRun(shop, n) ==
  [shop |-> shop, status |-> "RUNNING", productsQueued |-> n,
   succeeded |-> 0, failed |-> 0, completedAt |-> NoTime]

NewInsight == [aiStatus |-> "NONE", aiError |-> NoError]

WorkerIdle ==
  [cand |-> NoJob, candUpdatedAt |-> NoTime, job |-> NoJob, shop |-> "s1",
   productId |-> "p1", runId |-> NoRun, attempts |-> 0, message |-> NoError,
   consecutiveEmpty |-> 0, runList |-> {}, run |-> NoRun, caught |-> FALSE]

HandlerIdle ==
  [shop |-> "s1", intent |-> "none", productIds |-> <<>>, runId |-> NoRun,
   force |-> FALSE, existing |-> NoJob, job |-> NoJob, enqueued |-> 0,
   submitted |-> 0]

Extend(f, k, v) == [x \in DOMAIN f \cup {k} |-> IF x = k THEN v ELSE f[x]]

Restrict(f, S) == [x \in S |-> f[x]]

DeliveryIdle ==
  [webhookId |-> NoWebhookId, shop |-> "s1", status |-> 0, purged |-> FALSE]

\* a nullable number (number | null)
NoNumber == [present |-> FALSE, value |-> 0]
Some(n) == [present |-> TRUE, value |-> n]

SigIdle ==
  [totalAvailable |-> NoNumber, hasStatus |-> FALSE, hasImage |-> FALSE,
   hasInventory |-> FALSE, daysSinceUpdated |-> 0,
   inventoryStatus |-> "none", score |-> NoScore,
   attemptIndex |-> 0, backoffMs |-> NoDelay]

\* ---------------------------------------------------------------- Init
Keys == Shops \X Products

\* processes at rest: workers about to poll, no request in flight
AtRest ==
  /\ pc = [w \in Workers |-> "poll"]
  /\ wl = [w \in Workers |-> WorkerIdle]
  /\ hpc = [h \in Handlers |-> "idle"]
  /\ hl = [h \in Handlers |-> HandlerIdle]

\* no webhook delivered, every shop has its session, no signal computed
Installed ==
  /\ webhookEvents = {}
  /\ sessions = Shops
  /\ whpc = [d \in Deliveries |-> "idle"]
  /\ whl = [d \in Deliveries |-> DeliveryIdle]
  /\ sig = SigIdle

\* the store after installation: the loader has upserted ProductInsight rows
\* for some of the products, nothing has been enqueued
Init ==
  /\ now = 0
  /\ ticks = 0
  /\ jobs = <<>>
  /\ nextJobId = 1
  /\ runs = <<>>
  /\ nextRunId = 1
  /\ \E S \in SUBSET (Shops \X RequestProducts) :
       insights = [k \in S |-> NewInsight]
  /\ completedWrites = <<>>
  /\ delays = <<>>
  /\ AtRest
  /\ Installed

ProductOf(i) == CASE i = 1 -> "p1" [] i = 2 -> "p2" [] OTHER -> "p3"

\* the store after one batch request for n distinct products was served at
\* time 0: Run 1 with productsQueued = n, Jobs 1..n QUEUED, the mirror
\* QUEUED on the ProductInsight rows that exist
InitQueued ==
  /\ now = 0
  /\ ticks = 0
  /\ \E n \in 1..MaxQueued :
     \E S \in SUBSET {Key("s1", ProductOf(j)) : j \in 1..n} :
       /\ Key("s1", "p1") \in S
       /\ jobs = [j \in 1..n |-> NewJob("s1", ProductOf(j), 1)]
       /\ nextJobId = n + 1
       /\ runs = <<NewRun("s1", n)>>
       /\ insights = [k \in S |->
            IF \E j \in 1..n : k = Key("s1", ProductOf(j))
              THEN [NewInsight EXCEPT !.aiStatus = "QUEUED"] ELSE NewInsight]
  /\ nextRunId = 2
  /\ completedWrites = <<0>>
  /\ delays = [j \in DOMAIN jobs |-> <<>>]
  /\ AtRest
  /\ Installed

\* the store when m jobs (m may be 0) enqueued by single requests are
\* eligible: each is fresh, or has failed once and its retry instant has passed
RaceStart == getBackoffMs(0) + MaxQueued

RetriedJob(row) ==
  [row EXCEPT !.attempts = 1, !.nextRetryAt = row.updatedAt + getBackoffMs(0),
              !.lastError = Slice([kind |-> "executor", len |-> 600], ErrorSliceLen)]

InitRace ==
  /\ now = RaceStart
  /\ ticks = 0
  /\ \E m \in 0..MaxQueued, stagger \in {0, 1} :
     \E R \in SUBSET (1..m) :
       /\ jobs = [j \in 1..m |->
            LET row == [NewJob("s1", ProductOf(j), NoRun) EXCEPT
                          !.createdAt = stagger * (j - 1),
                          !.updatedAt = stagger * (j - 1)]
            IN  IF j \in R THEN RetriedJob(row) ELSE row]
       /\ nextJobId = m + 1
       /\ insights = [k \in {Key("s1", ProductOf(j)) : j \in 1..m} |->
                        [NewInsight EXCEPT !.aiStatus = "QUEUED"]]
  /\ runs = <<>>
  /\ nextRunId = 1
  /\ completedWrites = <<>>
  /\ delays = [j \in DOMAIN jobs |->
                 IF jobs[j].attempts = 0 THEN <<>> ELSE <<getBackoffMs(0)>>]
  /\ AtRest
  /\ Installed

\* ------------------------------------------- worker: main loop of worker.ts
\* tick() returned false ("empty": nothing claimed), true ("work": a job was
\* processed) or threw into the catch of main() ("error").  The bookkeeping
\* of main() up to the next store operation is local to the worker.  Only
\* consecutiveEmpty % 5 is ever inspected, so the residue is kept.  caught
\* is history: the last iteration of the loop went through the catch of main().
\* mutant: the count of empty polls never triggers the reconciliation
ReconcileNever(consecutiveEmpty) == FALSE

\* consecutiveEmpty % 5 === 0 && consecutiveEmpty > 0
Reconcile(consecutiveEmpty) == consecutiveEmpty % EmptyPollsPerReconcile = 0

\* mutant: an error leaves the loop and ends the process
ReturnStops(w, res) ==
  LET n == CASE res = "work" -> 0
             [] res = "empty" -> (wl[w].consecutiveEmpty + 1) % EmptyPollsPerReconcile
             [] OTHER -> wl[w].consecutiveEmpty
  IN  /\ wl' = [wl EXCEPT ![w] = [WorkerIdle EXCEPT !.consecutiveEmpty = n,
                                                     !.caught = (res = "error")]]
      /\ pc' = [pc EXCEPT ![w] =
                  IF res = "error" THEN "stopped"
                  ELSE IF res = "empty" /\ Reconcile(n) THEN "urFind" ELSE "poll"]

Return(w, res) ==
  LET n == CASE res = "work" -> 0
             [] res = "empty" -> (wl[w].consecutiveEmpty + 1) % EmptyPollsPerReconcile
             [] OTHER -> wl[w].consecutiveEmpty
  IN  /\ wl' = [wl EXCEPT ![w] = [WorkerIdle EXCEPT !.consecutiveEmpty = n,
                                                     !.caught = (res = "error")]]
      /\ pc' = [pc EXCEPT ![w] =
                  IF res = "empty" /\ Reconcile(n) THEN "urFind" ELSE "poll"]

Goto(w, label) == pc' = [pc EXCEPT ![w] = label]

\* ------------------------------------------------- worker: claimNextJob
\* tx.insightJob.findFirst({status QUEUED, nextRetryAt null or <= now},
\*                         orderBy createdAt asc)
ClaimFind(w) ==
  /\ pc[w] = "poll"
  /\ IF Candidates = {}
       THEN Return(w, "empty")
       ELSE \E c \in Candidates :
              /\ wl' = [wl EXCEPT ![w].cand = c,
                                  ![w].candUpdatedAt = jobs[c].updatedAt,
                                  ![w].shop = jobs[c].shop,
                                  ![w].productId = jobs[c].productId,
                                  ![w].runId = jobs[c].runId,
                                  ![w].attempts = jobs[c].attempts]
              /\ Goto(w, "claimUpdate")
  /\ UNCHANGED <<storeVars, handlerVars, clockVars, completedWrites, delays, otherVars>>

\* mutant: the update is keyed on the id alone
ClaimWhereUnfenced(j, id, updatedAt) == j = id

\* mutant: the update is fenced on the status alone
ClaimWhereStatusOnly(j, id, updatedAt) ==
  /\ j = id
  /\ jobs[j].status = "QUEUED"

\* where-clause of the fenced updateMany
ClaimWhere(j, id, updatedAt) ==
  /\ j = id
  /\ jobs[j].status = "QUEUED"
  /\ jobs[j].updatedAt = updatedAt

\* mutant: the claim leaves the status QUEUED
ClaimDataKeepsQueued(row) ==
  [row EXCEPT !.attempts = row.attempts + 1, !.nextRetryAt = NoTime,
              !.updatedAt = now]

\* mutant: the claim counts the attempt twice
ClaimDataCountsTwice(row) ==
  [row EXCEPT !.status = "RUNNING", !.attempts = row.attempts + 2,
              !.nextRetryAt = NoTime, !.updatedAt = now]

\* data of the fenced updateMany
ClaimData(row) ==
  [row EXCEPT !.status = "RUNNING", !.attempts = row.attempts + 1,
              !.nextRetryAt = NoTime, !.updatedAt = now]

ClaimUpdate(w) ==
  /\ pc[w] = "claimUpdate"
  /\ LET matched == {j \in DOMAIN jobs :
                       ClaimWhere(j, wl[w].cand, wl[w].candUpdatedAt)}
     IN  IF matched = {}
           THEN /\ Return(w, "empty")          \* updated.count === 0
                /\ UNCHANGED jobs
           ELSE /\ jobs' = [j \in DOMAIN jobs |->
                              IF j \in matched THEN ClaimData(jobs[j]) ELSE jobs[j]]
                /\ wl' = [wl EXCEPT ![w].job = wl[w].cand,
                                    ![w].cand = NoJob,
                                    ![w].candUpdatedAt = NoTime,
                                    ![w].attempts = wl[w].attempts + 1]
                /\ Goto(w, "claimInsight")
  /\ UNCHANGED <<nextJobId, runs, nextRunId, insights, handlerVars, clockVars,
                 completedWrites, delays, otherVars>>

\* productInsight.findUnique({shop_productId})
ClaimInsight(w) ==
  /\ pc[w] = "claimInsight"
  /\ IF Key(wl[w].shop, wl[w].productId) \in DOMAIN insights
       THEN Goto(w, "claimMirror")
       ELSE Goto(w, "claimNoInsight")
  /\ UNCHANGED <<wl, storeVars, handlerVars, clockVars, completedWrites, delays, otherVars>>

\* mutant: the Job is put back in the queue and the error kept
ClaimNoInsightRequeues(w) ==
  /\ pc[w] = "claimNoInsight"
  /\ IF wl[w].job \in DOMAIN jobs
       THEN /\ jobs' = [jobs EXCEPT ![wl[w].job].status = "QUEUED",
                                    ![wl[w].job].lastError = InsightNotFoundError,
                                    ![wl[w].job].updatedAt = now]
            /\ Return(w, "empty")
       ELSE /\ UNCHANGED jobs
            /\ Return(w, "error")
  /\ UNCHANGED <<nextJobId, runs, nextRunId, insights, handlerVars, clockVars,
                 completedWrites, delays, otherVars>>

\* insightJob.update({id}, {status FAILED, lastError "ProductInsight not found"})
ClaimNoInsight(w) ==
  /\ pc[w] = "claimNoInsight"
  /\ IF wl[w].job \in DOMAIN jobs
       THEN /\ jobs' = [jobs EXCEPT ![wl[w].job].status = "FAILED",
                                    ![wl[w].job].lastError = InsightNotFoundError,
                                    ![wl[w].job].updatedAt = now]
            /\ Return(w, "empty")
       ELSE /\ UNCHANGED jobs
            /\ Return(w, "error")
  /\ UNCHANGED <<nextJobId, runs, nextRunId, insights, handlerVars, clockVars,
                 completedWrites, delays, otherVars>>

\* productInsight.update({id}, {aiStatus RUNNING, aiError null})
ClaimMirror(w) ==
  /\ pc[w] = "claimMirror"
  /\ LET k == Key(wl[w].shop, wl[w].productId)
     IN  IF k \in DOMAIN insights
           THEN /\ insights' = [insights EXCEPT ![k].aiStatus = "RUNNING",
                                                ![k].aiError = NoError]
                /\ Goto(w, "execute")
                /\ UNCHANGED wl
           ELSE /\ UNCHANGED insights
                /\ Return(w, "error")
  /\ UNCHANGED <<jobs, nextJobId, runs, nextRunId, handlerVars, clockVars,
                 completedWrites, delays, otherVars>>

\* --------------------------------------------------- worker: processJob
\* generateProductInsightExplanation: returns, or throws an Error whose
\* message has one of the lengths lens
ExecuteOf(w, lens) ==
  /\ pc[w] = "execute"
  /\ \/ /\ Goto(w, "successTx")
        /\ UNCHANGED wl
     \/ \E n \in lens :
          /\ wl' = [wl EXCEPT ![w].message = [kind |-> "executor", len |-> n]]
          /\ Goto(w, "failRead")
  /\ UNCHANGED <<storeVars, handlerVars, clockVars, completedWrites, delays, otherVars>>

Execute(w) == ExecuteOf(w, ErrorLens)

\* a store operation threw inside the try block of processJob
Caught(w) ==
  /\ \E n \in ErrorLens :
       wl' = [wl EXCEPT ![w].message = [kind |-> "store", len |-> n]]
  /\ Goto(w, "failRead")

\* $transaction([productInsight.update SUCCEEDED, insightJob.update SUCCEEDED])
SuccessTx(w) ==
  /\ pc[w] = "successTx"
  /\ LET k == Key(wl[w].shop, wl[w].productId)
         j == wl[w].job
     IN  IF k \in DOMAIN insights /\ j \in DOMAIN jobs
           THEN /\ insights' = [insights EXCEPT ![k].aiStatus = "SUCCEEDED",
                                                ![k].aiError = NoError]
                /\ jobs' = [jobs EXCEPT ![j].status = "SUCCEEDED",
                                        ![j].lastError = NoError,
                                        ![j].updatedAt = now]
                /\ IF wl[w].runId # NoRun
                     THEN Goto(w, "runSucceeded") /\ UNCHANGED wl
                     ELSE Return(w, "work")
           ELSE /\ UNCHANGED <<insights, jobs>>
                /\ Caught(w)
  /\ UNCHANGED <<nextJobId, runs, nextRunId, handlerVars, clockVars,
                 completedWrites, delays, otherVars>>

\* run.update({id: runId}, {succeeded: {increment: 1}})
RunSucceeded(w) ==
  /\ pc[w] = "runSucceeded"
  /\ IF wl[w].runId \in DOMAIN runs
       THEN /\ runs' = [runs EXCEPT ![wl[w].runId].succeeded = @ + 1]
            /\ Return(w, "work")
       ELSE /\ UNCHANGED runs
            /\ Caught(w)
  /\ UNCHANGED <<jobs, nextJobId, nextRunId, insights, handlerVars, clockVars,
                 completedWrites, delays, otherVars>>

\* the run.update of the succeeded counter rejects (connection lost, lock
\* timeout): nothing is written and the error is caught by processJob
RunSucceededFails(w) ==
  /\ pc[w] = "runSucceeded"
  /\ Caught(w)
  /\ UNCHANGED <<storeVars, handlerVars, clockVars, completedWrites, delays, otherVars>>

\* catch: insightJob.findUnique({id}); attempts = job?.attempts ?? 1
FailRead(w) ==
  /\ pc[w] = "failRead"
  /\ wl' = [wl EXCEPT ![w].attempts =
              IF wl[w].job \in DOMAIN jobs THEN jobs[wl[w].job].attempts ELSE 1]
  /\ Goto(w, "failTx")
  /\ UNCHANGED <<storeVars, handlerVars, clockVars, completedWrites, delays, otherVars>>

\* generateProductInsightExplanation returns on every call
ExecuteReturns(w) == Execute(w) /\ pc'[w] = "successTx"

\* mutant: a failed job is always retried
WillRetryAlways(attempts) == TRUE

\* mutant: one retry too many
WillRetryOffByOne(attempts) == attempts <= MAX_ATTEMPTS

\* const willRetry = attempts < MAX_ATTEMPTS
WillRetry(attempts) == attempts < MAX_ATTEMPTS

\* mutant: every failure of a job of a run is counted
CountsEveryFailure(attempts) == TRUE

\* mutant: the comparison with the ceiling is strict
CountsPastCeiling(attempts) == attempts > MAX_ATTEMPTS

\* if (runId) { if (attempts >= MAX_ATTEMPTS) run.update failed + 1 }
CountsAsFailed(attempts) == attempts >= MAX_ATTEMPTS

\* $transaction([productInsight.update, insightJob.update]) of the catch block
FailTx(w) ==
  /\ pc[w] = "failTx"
  /\ LET k == Key(wl[w].shop, wl[w].productId)
         j == wl[w].job
         willRetry == WillRetry(wl[w].attempts)
         backoffMs == getBackoffMs(wl[w].attempts - 1)
         msg == Slice(wl[w].message, ErrorSliceLen)
     IN  IF k \in DOMAIN insights /\ j \in DOMAIN jobs
           THEN /\ insights' = [insights EXCEPT
                       ![k].aiStatus = IF willRetry THEN "QUEUED" ELSE "FAILED",
                       ![k].aiError = IF willRetry THEN NoError ELSE msg]
                /\ jobs' = [jobs EXCEPT
                       ![j].status = IF willRetry THEN "QUEUED" ELSE "FAILED",
                       ![j].lastError = msg,
                       ![j].nextRetryAt = IF willRetry THEN now + backoffMs
                                                       ELSE NoTime,
                       ![j].updatedAt = now]
                /\ delays' = IF willRetry
                                THEN [delays EXCEPT ![j] = Append(@, backoffMs)]
                                ELSE delays
                /\ IF wl[w].runId # NoRun /\ CountsAsFailed(wl[w].attempts)
                     THEN Goto(w, "runFailed") /\ UNCHANGED wl
                     ELSE Return(w, "work")
           ELSE /\ UNCHANGED <<insights, jobs, delays>>
                /\ Return(w, "error")
  /\ UNCHANGED <<nextJobId, runs, nextRunId, handlerVars, clockVars,
                 completedWrites, otherVars>>

\* run.update({id: runId}, {failed: {increment: 1}})
RunFailed(w) ==
  /\ pc[w] = "runFailed"
  /\ IF wl[w].runId \in DOMAIN runs
       THEN /\ runs' = [runs EXCEPT ![wl[w].runId].failed = @ + 1]
            /\ Return(w, "work")
       ELSE /\ UNCHANGED runs
            /\ Return(w, "error")
  /\ UNCHANGED <<jobs, nextJobId, nextRunId, insights, handlerVars, clockVars,
                 completedWrites, delays, otherVars>>

\* the worker process dies (killed, host lost) wherever it is; its locals
\* are lost with it and are kept here as history
Crash(w) ==
  /\ pc[w] # "crashed"
  /\ Goto(w, "crashed")
  /\ UNCHANGED <<wl, storeVars, handlerVars, clockVars, completedWrites, delays, otherVars>>

\* ------------------------------------------- worker: updateRunCompletion
\* run.findMany({status RUNNING})
URFind(w) ==
  /\ pc[w] = "urFind"
  /\ LET found == {r \in DOMAIN runs : runs[r].status = "RUNNING"}
     IN  /\ wl' = [wl EXCEPT ![w].runList = found]
         /\ IF found = {} THEN Goto(w, "poll") ELSE Goto(w, "urCount")
  /\ UNCHANGED <<storeVars, handlerVars, clockVars, completedWrites, delays, otherVars>>

\* mutant: the count has no status filter
PendingAnyStatus(r) ==
  Cardinality({j \in DOMAIN jobs : jobs[j].runId = r})

Pending(r) ==
  Cardinality({j \in DOMAIN jobs : jobs[j].runId = r /\ IsActive(j)})

\* insightJob.count({runId, status in [QUEUED, RUNNING]}) for the next run
URCount(w) ==
  /\ pc[w] = "urCount"
  /\ \E r \in wl[w].runList :
       LET rest == wl[w].runList \ {r}
       IN  IF Pending(r) = 0
             THEN /\ wl' = [wl EXCEPT ![w].run = r, ![w].runList = rest]
                  /\ Goto(w, "urUpdate")
             ELSE /\ wl' = [wl EXCEPT ![w].runList = rest]
                  /\ IF rest = {} THEN Goto(w, "poll") ELSE UNCHANGED pc
  /\ UNCHANGED <<storeVars, handlerVars, clockVars, completedWrites, delays, otherVars>>

\* run.update({id}, {status COMPLETED, completedAt: new Date()})
URUpdate(w) ==
  /\ pc[w] = "urUpdate"
  /\ LET r == wl[w].run
     IN  IF r \in DOMAIN runs
           THEN /\ runs' = [runs EXCEPT ![r].status = "COMPLETED",
                                        ![r].completedAt = now]
                /\ completedWrites' = [completedWrites EXCEPT ![r] = @ + 1]
                /\ wl' = [wl EXCEPT ![w].run = NoRun]
                /\ IF wl[w].runList = {} THEN Goto(w, "poll")
                                         ELSE Goto(w, "urCount")
           ELSE /\ UNCHANGED <<runs, completedWrites, delays, otherVars>>
                /\ wl' = [wl EXCEPT ![w].run = NoRun, ![w].runList = {},
                                    ![w].caught = TRUE]
                /\ Goto(w, "poll")
  /\ UNCHANGED <<jobs, nextJobId, nextRunId, insights, handlerVars, clockVars,
                 delays, otherVars>>


\* --------------------------------------- handler: action of app.insights.tsx
\* product id lists a batch request may carry (after split/filter)
BatchInputs == UNION {[1..n -> RequestProducts] : n \in 1..MaxBatch}

\* mutant: the list is not sliced
SliceIdsUncapped(ids, n) == ids

SliceIds(ids, n) == SubSeq(ids, 1, Min(Len(ids), n))

HGoto(h, label) == hpc' = [hpc EXCEPT ![h] = label]

\* intent === "batch": productIds = split(",").filter(Boolean).slice(0, BATCH_MAX)
\* for a productIds field holding one of the lists of inputs; submitted
\* keeps the number of ids the field held
StartBatchOf(h, inputs) ==
  /\ hpc[h] = "idle"
  /\ \E shop \in Shops, ids \in inputs :
       hl' = [hl EXCEPT ![h] = [HandlerIdle EXCEPT
                !.shop = shop, !.intent = "batch",
                !.productIds = SliceIds(ids, BATCH_MAX),
                !.submitted = Len(ids)]]
  /\ HGoto(h, "runCreate")
  /\ UNCHANGED <<storeVars, workerVars, clockVars, completedWrites, delays, otherVars>>

StartBatch(h) == StartBatchOf(h, BatchInputs)

\* run.create({shop, status RUNNING, productsQueued: productIds.length})
RunCreate(h) ==
  /\ hpc[h] = "runCreate"
  /\ nextRunId <= MaxRuns
  /\ runs' = Extend(runs, nextRunId, NewRun(hl[h].shop, Len(hl[h].productIds)))
  /\ completedWrites' = Extend(completedWrites, nextRunId, 0)
  /\ nextRunId' = nextRunId + 1
  /\ hl' = [hl EXCEPT ![h].runId = nextRunId]
  /\ HGoto(h, "enqFind")
  /\ UNCHANGED <<jobs, nextJobId, insights, workerVars, clockVars, delays,
                 otherVars>>

\* intent "generate" | "regenerate" for one productId
StartSingle(h) ==
  /\ hpc[h] = "idle"
  /\ \E shop \in Shops, productId \in RequestProducts,
        intent \in {"generate", "regenerate"} :
       hl' = [hl EXCEPT ![h] = [HandlerIdle EXCEPT
                !.shop = shop, !.intent = intent,
                !.productIds = <<productId>>,
                !.force = (intent = "regenerate")]]
  /\ HGoto(h, "actionInsight")
  /\ UNCHANGED <<storeVars, workerVars, clockVars, completedWrites, delays, otherVars>>

\* productInsight.findUnique; "Product insight not found." when absent
ActionInsight(h) ==
  /\ hpc[h] = "actionInsight"
  /\ IF Key(hl[h].shop, Head(hl[h].productIds)) \in DOMAIN insights
       THEN HGoto(h, "enqFind")
       ELSE HGoto(h, "respond")
  /\ UNCHANGED <<hl, storeVars, workerVars, clockVars, completedWrites, delays, otherVars>>

\* ------------------------------------------- handler: enqueueInsightJob
\* mutant: enqueued++ without the test of the id
EnqReturnCountsAll(h, id) ==
  LET rest == Tail(hl[h].productIds)
      n == hl[h].enqueued + 1
  IN  /\ hl' = [hl EXCEPT ![h].job = id, ![h].existing = NoJob,
                          ![h].enqueued = n, ![h].productIds = rest]
      /\ IF hl[h].intent = "batch" /\ rest # <<>>
           THEN HGoto(h, "enqFind")
           ELSE HGoto(h, "respond")

\* enqueueInsightJob returned id (NoJob for null) to enqueueBatch or the action
EnqReturn(h, id) ==
  LET rest == Tail(hl[h].productIds)
      n == hl[h].enqueued + (IF id # NoJob THEN 1 ELSE 0)
  IN  /\ hl' = [hl EXCEPT ![h].job = id, ![h].existing = NoJob,
                          ![h].enqueued = n, ![h].productIds = rest]
      /\ IF hl[h].intent = "batch" /\ rest # <<>>
           THEN HGoto(h, "enqFind")
           ELSE HGoto(h, "respond")

\* mutant: the early return is missing
NeverSkipsEnqueue(existing, force) == FALSE

\* if (existing && !force) return null
SkipsEnqueue(existing, force) == existing /\ ~force

\* if (existing && force) supersede
Supersedes(existing, force) == existing /\ force

\* insightJob.findFirst({shop, productId, status in [QUEUED, RUNNING]})
EnqFind(h) ==
  /\ hpc[h] = "enqFind"
  /\ LET found == ActiveJobs(hl[h].shop, Head(hl[h].productIds))
     IN  IF SkipsEnqueue(found # {}, hl[h].force)
           THEN EnqReturn(h, NoJob)                 \* return null
           ELSE IF Supersedes(found # {}, hl[h].force)
             THEN \E e \in found :
                    /\ hl' = [hl EXCEPT ![h].existing = e]
                    /\ HGoto(h, "enqSupersede")
             ELSE /\ hl' = [hl EXCEPT ![h].existing = NoJob]
                  /\ HGoto(h, "enqCreate")
  /\ UNCHANGED <<storeVars, workerVars, clockVars, completedWrites, delays, otherVars>>

\* insightJob.update({id: existing.id}, {status FAILED, lastError "Superseded..."})
EnqSupersede(h) ==
  /\ hpc[h] = "enqSupersede"
  /\ IF hl[h].existing \in DOMAIN jobs
       THEN /\ jobs' = [jobs EXCEPT ![hl[h].existing].status = "FAILED",
                                    ![hl[h].existing].lastError = SupersededError,
                                    ![hl[h].existing].updatedAt = now]
            /\ HGoto(h, "enqCreate")
            /\ UNCHANGED hl
       ELSE /\ UNCHANGED jobs                        \* update throws
            /\ hl' = [hl EXCEPT ![h] = HandlerIdle]
            /\ HGoto(h, "idle")
  /\ UNCHANGED <<nextJobId, runs, nextRunId, insights, workerVars, clockVars,
                 completedWrites, delays, otherVars>>

\* insightJob.create({shop, productId, runId, status QUEUED})
\* (InsightJob_runId_fkey: the create throws when the Run row is gone)
EnqCreate(h) ==
  /\ hpc[h] = "enqCreate"
  /\ IF hl[h].runId = NoRun \/ hl[h].runId \in DOMAIN runs
       THEN /\ jobs' = Extend(jobs, nextJobId,
                 NewJob(hl[h].shop, Head(hl[h].productIds), hl[h].runId))
            /\ delays' = Extend(delays, nextJobId, <<>>)
            /\ nextJobId' = nextJobId + 1
            /\ hl' = [hl EXCEPT ![h].job = nextJobId]
            /\ HGoto(h, "enqInsight")
       ELSE /\ UNCHANGED <<jobs, delays, nextJobId>>
            /\ hl' = [hl EXCEPT ![h] = HandlerIdle]
            /\ HGoto(h, "idle")
  /\ UNCHANGED <<runs, nextRunId, insights, workerVars, clockVars,
                 completedWrites, otherVars>>

\* the requests of a specification create at most MaxJobs jobs
EnqCreateCapped(h) == nextJobId <= MaxJobs /\ EnqCreate(h)

\* productInsight.findUnique({shop_productId})
EnqInsight(h) ==
  /\ hpc[h] = "enqInsight"
  /\ IF Key(hl[h].shop, Head(hl[h].productIds)) \in DOMAIN insights
       THEN HGoto(h, "enqMirror") /\ UNCHANGED hl
       ELSE EnqReturn(h, hl[h].job)
  /\ UNCHANGED <<storeVars, workerVars, clockVars, completedWrites, delays, otherVars>>

\* productInsight.update({id}, {aiStatus QUEUED, aiError null})
EnqMirror(h) ==
  /\ hpc[h] = "enqMirror"
  /\ LET k == Key(hl[h].shop, Head(hl[h].productIds))
     IN  IF k \in DOMAIN insights
           THEN /\ insights' = [insights EXCEPT ![k].aiStatus = "QUEUED",
                                                ![k].aiError = NoError]
                /\ EnqReturn(h, hl[h].job)
           ELSE /\ UNCHANGED insights                \* update throws
                /\ hl' = [hl EXCEPT ![h] = HandlerIdle]
                /\ HGoto(h, "idle")
  /\ UNCHANGED <<jobs, nextJobId, runs, nextRunId, workerVars, clockVars,
                 completedWrites, delays, otherVars>>

\* the action returns its response
Respond(h) ==
  /\ hpc[h] = "respond"
  /\ hl' = [hl EXCEPT ![h] = HandlerIdle]
  /\ HGoto(h, "idle")
  /\ UNCHANGED <<storeVars, workerVars, clockVars, completedWrites, delays, otherVars>>

\* ------------------------- webhook: action of webhooks.app.uninstalled.tsx
WhGoto(d, label) == whpc' = [whpc EXCEPT ![d] = label]

\* the action returns a Response with this status
WhRespond(d, status) ==
  /\ whl' = [whl EXCEPT ![d].status = status]
  /\ WhGoto(d, "done")

\* request.headers.get("x-shopify-webhook-id"); webhookEvent.findUnique
WhFind(d) ==
  /\ whpc[d] = "idle"
  /\ \E id \in WebhookIds \cup {NoWebhookId}, shop \in Shops :
       IF id # NoWebhookId /\ id \in webhookEvents
         THEN /\ whl' = [whl EXCEPT ![d].webhookId = id, ![d].shop = shop,
                                    ![d].status = 200]
              /\ WhGoto(d, "done")
         ELSE /\ whl' = [whl EXCEPT ![d].webhookId = id, ![d].shop = shop]
              /\ WhGoto(d, "whAuth")
  /\ UNCHANGED <<storeVars, workerVars, handlerVars, clockVars,
                 completedWrites, delays, webhookEvents, sessions, sig>>

\* mutant: the WebhookEvent row is inserted before the sender is verified
WhAuthRecordsFirst(d) ==
  /\ whpc[d] = "whAuth"
  /\ \E ok \in BOOLEAN :
       IF ok
         THEN /\ UNCHANGED <<whl, webhookEvents>>
              /\ IF whl[d].webhookId # NoWebhookId THEN WhGoto(d, "whCreate")
                                                   ELSE WhGoto(d, "whPurge")
         ELSE /\ webhookEvents' = webhookEvents \cup
                    (IF whl[d].webhookId # NoWebhookId THEN {whl[d].webhookId}
                                                       ELSE {})
              /\ WhRespond(d, 401)
  /\ UNCHANGED <<storeVars, workerVars, handlerVars, clockVars,
                 completedWrites, delays, sessions, sig>>

\* authenticate.webhook(request): returns, or throws a 401 Response
WhAuth(d) ==
  /\ whpc[d] = "whAuth"
  /\ \E ok \in BOOLEAN :
       IF ok
         THEN /\ UNCHANGED whl
              /\ IF whl[d].webhookId # NoWebhookId THEN WhGoto(d, "whCreate")
                                                   ELSE WhGoto(d, "whPurge")
         ELSE WhRespond(d, 401)
  /\ UNCHANGED <<storeVars, workerVars, handlerVars, clockVars,
                 completedWrites, delays, webhookEvents, sessions, sig>>

\* mutant: the webhookId column has no unique index
ConflictsNever(webhookId) == FALSE

\* WebhookEvent_webhookId_key: the insert of a recorded webhookId throws
Conflicts(webhookId) == webhookId \in webhookEvents

\* try { webhookEvent.create({webhookId, topic, shop}) } catch { return 200 }
WhCreate(d) ==
  /\ whpc[d] = "whCreate"
  /\ IF Conflicts(whl[d].webhookId)
       THEN /\ UNCHANGED webhookEvents
            /\ WhRespond(d, 200)
       ELSE /\ webhookEvents' = webhookEvents \cup {whl[d].webhookId}
            /\ UNCHANGED whl
            /\ WhGoto(d, "whPurge")
  /\ UNCHANGED <<storeVars, workerVars, handlerVars, clockVars,
                 completedWrites, delays, sessions, sig>>

\* mutant: the session rows are deleted outside the transaction, later
PurgeSessionsLater(S, shop) == S

\* session.deleteMany({where: {shop}})
PurgeSessions(S, shop) == S \ {shop}

\* $transaction([insightJob.deleteMany, run.deleteMany,
\*               productInsight.deleteMany, session.deleteMany]) where {shop}
\* (InsightJob_runId_fkey: ON DELETE SET NULL for jobs of other shops)
WhPurge(d) ==
  /\ whpc[d] = "whPurge"
  /\ LET shop == whl[d].shop
         keptRuns == {r \in DOMAIN runs : runs[r].shop # shop}
         keptJobs == {j \in DOMAIN jobs : jobs[j].shop # shop}
     IN  /\ jobs' = [j \in keptJobs |->
                       IF jobs[j].runId = NoRun \/ jobs[j].runId \in keptRuns
                         THEN jobs[j] ELSE [jobs[j] EXCEPT !.runId = NoRun]]
         /\ runs' = Restrict(runs, keptRuns)
         /\ insights' = Restrict(insights,
                                 {k \in DOMAIN insights : k[1] # shop})
         /\ sessions' = PurgeSessions(sessions, shop)
  /\ whl' = [whl EXCEPT ![d].status = 200, ![d].purged = TRUE]
  /\ WhGoto(d, "done")
  /\ UNCHANGED <<nextJobId, nextRunId, workerVars, handlerVars, clockVars,
                 completedWrites, delays, webhookEvents, sig>>

\* mutant: the WebhookEvent insert is rolled back with the purge
WhPurgeFailsDropsEvent(d) ==
  /\ whpc[d] = "whPurge"
  /\ webhookEvents' = webhookEvents \ {whl[d].webhookId}
  /\ WhRespond(d, 500)
  /\ UNCHANGED <<storeVars, workerVars, handlerVars, clockVars,
                 completedWrites, delays, sessions, sig>>

\* the $transaction of the purge throws: nothing is deleted and the action
\* throws, which the framework answers with status 500
WhPurgeFails(d) ==
  /\ whpc[d] = "whPurge"
  /\ WhRespond(d, 500)
  /\ UNCHANGED <<storeVars, workerVars, handlerVars, clockVars,
                 completedWrites, delays, webhookEvents, sessions, sig>>

\* ------------------------------------- signal helpers of signals.server.ts
\* mutant: the threshold itself counts as OK
computeInventoryStatusStrict(totalAvailable) ==
  IF ~totalAvailable.present THEN "UNKNOWN"
  ELSE IF totalAvailable.value <= 0 THEN "OUT_OF_STOCK"
  ELSE IF totalAvailable.value < LOW_INVENTORY_THRESHOLD THEN "LOW"
  ELSE "OK"

computeInventoryStatus(totalAvailable) ==
  IF ~totalAvailable.present THEN "UNKNOWN"
  ELSE IF totalAvailable.value <= 0 THEN "OUT_OF_STOCK"
  ELSE IF totalAvailable.value <= LOW_INVENTORY_THRESHOLD THEN "LOW"
  ELSE "OK"

\* a comparison with NaN (number absent) is false
IsRecent(days) ==
  days.present /\ days.value >= 0 /\ days.value < RecencyDays

\* score before the clamp.  The sums are exact in hundredths; in doubles
\* they exceed the decimal value by at most one unit in the last place
\* (0.5 + 0.15 * 3 = 0.9500000000000001), which the clamp and the order of
\* the scores do not see.
RawScore(input) ==
  BaseScore + (IF input.hasStatus THEN SignalBonus ELSE 0)
            + (IF input.hasImage THEN SignalBonus ELSE 0)
            + (IF input.hasInventory THEN SignalBonus ELSE 0)
            + (IF IsRecent(input.daysSinceUpdated) THEN RecencyBonus ELSE 0)

\* mutant: the score is returned without the clamp
computeConfidenceUnclamped(input) == RawScore(input)

\* Math.min(0.95, Math.max(0.1, score))
computeConfidence(input) == Min(MaxScore, Max(MinScore, RawScore(input)))

\* the loader computes the inventory status of a product node
ComputeInventoryStatus ==
  /\ sig.inventoryStatus = "none"
  /\ sig' = [sig EXCEPT
               !.inventoryStatus = computeInventoryStatus(sig.totalAvailable)]
  /\ UNCHANGED <<storeVars, workerVars, handlerVars, clockVars,
                 completedWrites, delays, uninstallVars>>

\* ... and then its confidence score
ComputeConfidence ==
  /\ sig.inventoryStatus # "none"
  /\ sig.score = NoScore
  /\ sig' = [sig EXCEPT !.score = computeConfidence(sig)]
  /\ UNCHANGED <<storeVars, workerVars, handlerVars, clockVars,
                 completedWrites, delays, uninstallVars>>

\* a caller computes the delay for an attempt index
ComputeBackoff ==
  /\ sig.backoffMs = NoDelay
  /\ sig' = [sig EXCEPT !.backoffMs = getBackoffMs(sig.attemptIndex)]
  /\ UNCHANGED <<storeVars, workerVars, handlerVars, clockVars,
                 completedWrites, delays, uninstallVars>>

\* ------------------------------------------------------------ wall clock
\* Time values are only compared with each other.  AdvanceClock moves the
\* clock to the next instant at which a job waiting for its retry becomes
\* eligible; TickMs moves it to the next millisecond.
RetryInstants ==
  {jobs[j].nextRetryAt : j \in {i \in DOMAIN jobs :
      jobs[i].status = "QUEUED" /\ jobs[i].nextRetryAt > now}}

AdvanceClock ==
  /\ \E t \in RetryInstants : now' = t
  /\ UNCHANGED <<ticks, storeVars, workerVars, handlerVars, completedWrites, delays, otherVars>>

TickMs ==
  /\ ticks < MaxTicks
  /\ now' = now + 1
  /\ ticks' = ticks + 1
  /\ UNCHANGED <<storeVars, workerVars, handlerVars, completedWrites, delays, otherVars>>

\* --------------------------------------------------------- specification
WorkerStep(w) ==
  \/ ClaimFind(w) \/ ClaimUpdate(w) \/ ClaimInsight(w) \/ ClaimNoInsight(w)
  \/ ClaimMirror(w) \/ Execute(w) \/ SuccessTx(w) \/ RunSucceeded(w)
  \/ FailRead(w) \/ FailTx(w) \/ RunFailed(w)
  \/ URFind(w) \/ URCount(w) \/ URUpdate(w)

HandlerStep(h) ==
  \/ StartBatch(h) \/ RunCreate(h) \/ StartSingle(h) \/ ActionInsight(h)
  \/ EnqFind(h) \/ EnqSupersede(h) \/ EnqCreateCapped(h) \/ EnqInsight(h)
  \/ EnqMirror(h) \/ Respond(h)

\* a request for one product (generate or regenerate)
SingleStep(h) ==
  \/ StartSingle(h) \/ ActionInsight(h)
  \/ EnqFind(h) \/ EnqSupersede(h) \/ EnqCreateCapped(h) \/ EnqInsight(h)
  \/ EnqMirror(h) \/ Respond(h)

WebhookStep(d) == WhFind(d) \/ WhAuth(d) \/ WhCreate(d) \/ WhPurge(d)

\* Spec: one worker and one request handler on an initially empty queue.
Next ==
  \/ WorkerStep("w1")
  \/ HandlerStep("h1")
  \/ AdvanceClock

Spec == Init /\ [][Next]_vars

\* SpecWorkers: two workers on a queue filled by one batch request.
NextWorkers ==
  \/ \E w \in {"w1", "w2"} : WorkerStep(w)
  \/ AdvanceClock

SpecWorkers == InitQueued /\ [][NextWorkers]_vars

\* SpecClaimRace: every worker makes at most one call of claimNextJob on a
\* store holding eligible jobs; a worker whose call returned a job rests at
\* "execute", one whose call returned null rests at "poll" with one empty poll.
ClaimOnce(w) == wl[w].consecutiveEmpty = 0 /\ ClaimFind(w)

NextClaimRace ==
  \/ \E w \in Workers :
        ClaimOnce(w) \/ ClaimUpdate(w) \/ ClaimInsight(w) \/ ClaimMirror(w)
  \/ TickMs

SpecClaimRace == InitRace /\ [][NextClaimRace]_vars

\* the steps of a worker whose jobs never reach a retry instant
FirstAttemptStep(w) ==
  \/ ClaimFind(w) \/ ClaimUpdate(w) \/ ClaimInsight(w) \/ ClaimNoInsight(w)
  \/ ClaimMirror(w) \/ Execute(w) \/ SuccessTx(w) \/ RunSucceeded(w)
  \/ FailRead(w) \/ FailTx(w)
  \/ URFind(w) \/ URCount(w) \/ URUpdate(w)

\* SpecUninstall: shop s1, which has one queued job of a run, is uninstalled
\* (the webhook is delivered twice) while a worker runs and a request for
\* one product is served; shop s2 keeps its rows.  The clock stands still:
\* everything happens before the first retry instant.
InitUninstall ==
  /\ now = 0
  /\ ticks = 0
  /\ jobs = <<NewJob("s1", "p1", 1)>>
  /\ nextJobId = 2
  /\ runs = <<NewRun("s1", 1)>>
  /\ nextRunId = 2
  /\ insights = [k \in {Key("s1", "p1"), Key(OtherShop, "p1")} |->
                   IF k[1] = "s1" THEN [NewInsight EXCEPT !.aiStatus = "QUEUED"]
                                  ELSE NewInsight]
  /\ completedWrites = <<0>>
  /\ delays = <<(<<>>)>>
  /\ AtRest
  /\ webhookEvents = {}
  /\ sessions = Shops \cup {OtherShop}
  /\ whpc = [d \in Deliveries |-> "idle"]
  /\ whl = [d \in Deliveries |-> DeliveryIdle]
  /\ sig = SigIdle

NextUninstall ==
  \/ FirstAttemptStep("w1")
  \/ SingleStep("h1")
  \/ \E d \in Deliveries : WebhookStep(d)

SpecUninstall == InitUninstall /\ [][NextUninstall]_vars

\* SpecDrain: two workers that keep polling, on the queue left by one batch
\* request for every product (each has its Insight, none had an active
\* job); the executor returns on every call.
InitDrain ==
  /\ now = 0
  /\ ticks = 0
  /\ jobs = [j \in 1..Cardinality(Products) |-> NewJob("s1", ProductOf(j), 1)]
  /\ nextJobId = Cardinality(Products) + 1
  /\ runs = <<NewRun("s1", Cardinality(Products))>>
  /\ nextRunId = 2
  /\ insights = [k \in Keys |-> [NewInsight EXCEPT !.aiStatus = "QUEUED"]]
  /\ completedWrites = <<0>>
  /\ delays = [j \in DOMAIN jobs |-> <<>>]
  /\ AtRest
  /\ Installed

DrainStep(w) ==
  \/ ClaimFind(w) \/ ClaimUpdate(w) \/ ClaimInsight(w) \/ ClaimMirror(w)
  \/ ExecuteReturns(w) \/ SuccessTx(w) \/ RunSucceeded(w)
  \/ URFind(w) \/ URCount(w) \/ URUpdate(w)

NextDrain == \E w \in {"w1", "w2"} : DrainStep(w)

\* main() loops forever: each worker eventually takes its next step
SpecDrain ==
  /\ InitDrain
  /\ [][NextDrain]_vars
  /\ \A w \in {"w1", "w2"} : WF_vars(DrainStep(w))

\* SpecSignals: the signal helpers applied to the fields of one product node
QtyInputs == {NoNumber} \cup {Some(n) : n \in (0 - MaxQty)..MaxQty}

DayInputs ==
  {NoNumber} \cup
  {Some(n) : n \in {0 - 1, 0, 1, RecencyDays - 1, RecencyDays, RecencyDays + 1}}

InitSignals ==
  /\ now = 0
  /\ ticks = 0
  /\ jobs = <<>>
  /\ nextJobId = 1
  /\ runs = <<>>
  /\ nextRunId = 1
  /\ insights = <<>>
  /\ completedWrites = <<>>
  /\ delays = <<>>
  /\ AtRest
  /\ webhookEvents = {}
  /\ sessions = Shops
  /\ whpc = [d \in Deliveries |-> "idle"]
  /\ whl = [d \in Deliveries |-> DeliveryIdle]
  /\ sig \in [totalAvailable : QtyInputs, hasStatus : BOOLEAN,
               hasImage : BOOLEAN, hasInventory : BOOLEAN,
               daysSinceUpdated : DayInputs,
               inventoryStatus : {"none"}, score : {NoScore},
               attemptIndex : {0}, backoffMs : {NoDelay}]

NextSignals == ComputeInventoryStatus \/ ComputeConfidence

SpecSignals == InitSignals /\ [][NextSignals]_vars

\* SpecRetry: one worker on a queue filled by one batch request; the
\* executor fails with messages of every length of MessageLens.
RetryStep(w) ==
  \/ ClaimFind(w) \/ ClaimUpdate(w) \/ ClaimInsight(w) \/ ClaimNoInsight(w)
  \/ ClaimMirror(w) \/ ExecuteOf(w, MessageLens) \/ SuccessTx(w)
  \/ RunSucceeded(w) \/ FailRead(w) \/ FailTx(w) \/ RunFailed(w)
  \/ URFind(w) \/ URCount(w) \/ URUpdate(w)

NextRetry == RetryStep("w1") \/ AdvanceClock

SpecRetry == InitQueued /\ [][NextRetry]_vars

\* SpecBackoff: getBackoffMs applied to every attempt index from -1 (the
\* index of a Job whose attempts counter is 0) to MaxAttemptIndex
InitBackoff ==
  /\ now = 0
  /\ ticks = 0
  /\ jobs = <<>>
  /\ nextJobId = 1
  /\ runs = <<>>
  /\ nextRunId = 1
  /\ insights = <<>>
  /\ completedWrites = <<>>
  /\ delays = <<>>
  /\ AtRest
  /\ webhookEvents = {}
  /\ sessions = Shops
  /\ whpc = [d \in Deliveries |-> "idle"]
  /\ whl = [d \in Deliveries |-> DeliveryIdle]
  /\ \E i \in (0 - 1)..MaxAttemptIndex :
       sig = [SigIdle EXCEPT !.attemptIndex = i]

NextBackoff == ComputeBackoff

SpecBackoff == InitBackoff /\ [][NextBackoff]_vars

\* SpecFifo: two workers on the queue left by one batch request whose jobs
\* were created one millisecond apart; the product of the first job has its
\* ProductInsight row.
InitFifo ==
  /\ now = MaxQueued
  /\ ticks = 0
  /\ \E n \in 1..MaxQueued :
     \E S \in SUBSET {Key("s1", ProductOf(j)) : j \in 1..n} :
       /\ Key("s1", "p1") \in S
       /\ jobs = [j \in 1..n |->
                    [NewJob("s1", ProductOf(j), 1) EXCEPT !.createdAt = j - 1,
                                                          !.updatedAt = j - 1]]
       /\ nextJobId = n + 1
       /\ runs = <<NewRun("s1", n)>>
       /\ insights = [k \in S |-> [NewInsight EXCEPT !.aiStatus = "QUEUED"]]
  /\ nextRunId = 2
  /\ completedWrites = <<0>>
  /\ delays = [j \in DOMAIN jobs |-> <<>>]
  /\ AtRest
  /\ Installed

SpecFifo == InitFifo /\ [][NextWorkers]_vars

\* SpecPurgeFailure: the webhook is delivered twice to a store whose purge
\* transaction may fail, while a request for one product is served.
NextPurgeFailure ==
  \/ \E d \in Deliveries : WebhookStep(d) \/ WhPurgeFails(d)
  \/ SingleStep("h1")

SpecPurgeFailure == InitUninstall /\ [][NextPurgeFailure]_vars

\* SpecBatch: one request handler serving batch requests whose productIds
\* field holds up to MaxSubmitted ids, on an initially empty queue.  The
\* ProductInsight rows of the listed products exist (the list shown by the
\* loader) or are all missing.
ProductId(i) == "p" \o ToString(i)

LargeBatchInputs ==
  {[i \in 1..n |-> ProductId(i)] : n \in 1..MaxSubmitted}
    \cup {[i \in 1..MaxSubmitted |-> ProductId(1 + (i % 2))]}

InitBatch ==
  /\ now = 0
  /\ ticks = 0
  /\ jobs = <<>>
  /\ nextJobId = 1
  /\ runs = <<>>
  /\ nextRunId = 1
  /\ \E S \in {{}, {Key("s1", ProductId(i)) : i \in 1..MaxSubmitted}} :
       insights = [k \in S |-> NewInsight]
  /\ completedWrites = <<>>
  /\ delays = <<>>
  /\ AtRest
  /\ Installed

NextBatch ==
  \/ StartBatchOf("h1", LargeBatchInputs)
  \/ RunCreate("h1") \/ EnqFind("h1") \/ EnqCreate("h1")
  \/ EnqInsight("h1") \/ EnqMirror("h1") \/ Respond("h1")

SpecBatch == InitBatch /\ [][NextBatch]_vars

\* SpecCrashBatch: a batch request is served on an initially empty queue
\* while two workers run; worker w1 may die at any point.  The clock stands
\* still: everything happens before the first retry instant.
BatchStep(h) ==
  \/ StartBatch(h) \/ RunCreate(h) \/ EnqFind(h) \/ EnqCreateCapped(h)
  \/ EnqInsight(h) \/ EnqMirror(h) \/ Respond(h)

NextCrashBatch ==
  \/ \E w \in {"w1", "w2"} : FirstAttemptStep(w)
  \/ Crash("w1")
  \/ BatchStep("h1")

SpecCrashBatch == Init /\ [][NextCrashBatch]_vars

\* SpecLive: one worker that keeps polling, on a queue filled by one batch
\* request; the executor returns or throws on every call.  main() loops
\* forever, so the worker eventually takes its next step, and the wall
\* clock eventually reaches every retry instant.
NextLive == WorkerStep("w1") \/ AdvanceClock

SpecLive ==
  /\ InitQueued
  /\ [][NextLive]_vars
  /\ WF_vars(WorkerStep("w1"))
  /\ WF_vars(AdvanceClock)

\* SpecStoreFault: one worker on a queue filled by one batch request, on a
\* store whose update of the succeeded counter may fail.
NextStoreFault ==
  \/ WorkerStep("w1")
  \/ RunSucceededFails("w1")
  \/ AdvanceClock

SpecStoreFault == InitQueued /\ [][NextStoreFault]_vars

TypeOK ==
  /\ now \in Nat
  /\ \A j \in DOMAIN jobs : jobs[j].status \in {"QUEUED", "RUNNING", "SUCCEEDED", "FAILED"}
  /\ \A r \in DOMAIN runs : runs[r].status \in {"RUNNING", "COMPLETED"}

\* ------------------------------------------------------------ properties
\* a worker holds job j from its successful claim until tick() returns
Holders(j) == {w \in Workers : wl[w].job = j}

\* C1: no Job is held by two workers at once, and a Job a worker holds and
\* has not yet written back is not QUEUED, so a second claim of it can only
\* follow the failure-retry of its holder.
C1_ExclusiveClaim ==
  \A j \in DOMAIN jobs :
    /\ Cardinality(Holders(j)) <= 1
    /\ \A w \in Holders(j) :
         pc[w] \in {"claimInsight", "claimNoInsight", "claimMirror", "execute",
                    "successTx", "failRead", "failTx"}
           => jobs[j].status # "QUEUED"

\* a worker holds a job on its second attempt while another worker, which read
\* the same candidate, is about to run its fenced update
C1_Witness ==
  \E j \in DOMAIN jobs, w1, w2 \in Workers :
    /\ w1 # w2
    /\ wl[w1].job = j
    /\ jobs[j].attempts >= 2
    /\ pc[w2] = "claimUpdate" /\ wl[w2].cand = j

\* workers that have made their call, and those whose call returned a job
Callers == {w \in Workers : pc[w] # "poll" \/ wl[w].consecutiveEmpty # 0}
Winners == {w \in Workers : pc[w] = "execute"}
AllReturned ==
  \A w \in Workers : pc[w] \notin {"claimUpdate", "claimInsight", "claimMirror"}
DistinctClaims ==
  \A w1, w2 \in Winners : w1 # w2 => wl[w1].job # wl[w2].job

\* C2 as stated: N calls against M eligible jobs return exactly min(N, M) jobs.
C2_ExactlyMin ==
  AllReturned =>
    /\ Cardinality(Winners) = Min(Cardinality(Callers), Cardinality(DOMAIN jobs))
    /\ DistinctClaims

\* C2 amended: N calls against M eligible jobs return distinct jobs, at most
\* min(N, M) of them and at least one when N >= 1 and M >= 1.
C2_AtMostMin ==
  AllReturned =>
    /\ Cardinality(Winners) <= Min(Cardinality(Callers), Cardinality(DOMAIN jobs))
    /\ (Callers # {} /\ DOMAIN jobs # {} => Winners # {})
    /\ DistinctClaims

\* two calls against two eligible jobs have returned and only one got a job
C2_Witness ==
  /\ AllReturned
  /\ Cardinality(Callers) = 2
  /\ Cardinality(DOMAIN jobs) = 2
  /\ Cardinality(Winners) = 1

\* C3: at most one Job per (shop, productId) is QUEUED or RUNNING.
C3_OneActivePerProduct ==
  \A k \in Keys : Cardinality(ActiveJobs(k[1], k[2])) <= 1

\* C4: attempts is 0 on creation, grows by exactly 1 on a claim
\* (QUEUED -> RUNNING) and is changed by no other step.
C4_AttemptsStep ==
  /\ \A j \in DOMAIN jobs' \ DOMAIN jobs : jobs'[j].attempts = 0
  /\ \A j \in DOMAIN jobs \cap DOMAIN jobs' :
       IF jobs[j].status = "QUEUED" /\ jobs'[j].status = "RUNNING"
         THEN jobs'[j].attempts = jobs[j].attempts + 1
         ELSE jobs'[j].attempts = jobs[j].attempts

C4_AttemptsCountClaims == [][C4_AttemptsStep]_vars

\* a job is RUNNING on its third claim
C4_Witness ==
  \E j \in DOMAIN jobs :
    jobs[j].status = "RUNNING" /\ jobs[j].attempts = MAX_ATTEMPTS

\* job j is being claimed or processed by some worker
InFlight(j) ==
  \E w \in Holders(j) : pc[w] \in {"claimInsight", "claimNoInsight",
      "claimMirror", "execute", "successTx", "runSucceeded", "failRead", "failTx"}

\* job j has failed at the retry ceiling
Exhausted(j) ==
  /\ jobs[j].status = "FAILED"
  /\ jobs[j].attempts >= MAX_ATTEMPTS
  /\ ~InFlight(j)

\* C5: the failure handler run for a job whose attempts reached the ceiling
\* sets it FAILED, and such a job keeps status FAILED and its attempts (it
\* is never QUEUED or claimed again) in every later step.
C5_Step ==
  /\ \A w \in Workers :
       (/\ pc[w] = "failTx" /\ pc'[w] # "failTx"
        /\ wl[w].job \in DOMAIN jobs
        /\ Key(wl[w].shop, wl[w].productId) \in DOMAIN insights
        /\ jobs[wl[w].job].attempts >= MAX_ATTEMPTS)
         => jobs'[wl[w].job].status = "FAILED"
  /\ \A j \in DOMAIN jobs :
       Exhausted(j) => /\ j \in DOMAIN jobs'
                       /\ jobs'[j].status = "FAILED"
                       /\ jobs'[j].attempts = jobs[j].attempts

C5_ExhaustedIsTerminal == [][C5_Step]_vars

\* a job failed by the executor at the ceiling while another job is queued
C5_Witness ==
  \E j, k \in DOMAIN jobs :
    /\ Exhausted(j) /\ jobs[j].lastError.kind = "executor"
    /\ jobs[k].status = "QUEUED"

HandlerMoved(h) == <<hpc[h], hl[h]>> # <<hpc'[h], hl'[h]>>

\* C6: enqueueInsightJob with force = false finding an active Job for its
\* (shop, productId) returns null and changes no row of the store.
C6_Step ==
  \A h \in Handlers :
    (/\ hpc[h] = "enqFind" /\ HandlerMoved(h)
     /\ ~hl[h].force
     /\ ActiveJobs(hl[h].shop, Head(hl[h].productIds)) # {})
      => /\ UNCHANGED <<jobs, nextJobId, runs, nextRunId, insights>>
         /\ hl'[h].job = NoJob
         /\ hl'[h].enqueued = hl[h].enqueued
         /\ hpc'[h] \in {"enqFind", "respond"}

C6_NoForceNoEffect == [][C6_Step]_vars

\* a batch request is about to report 0 enqueued next to an active job
C6_Witness ==
  \E h \in Handlers :
    /\ hpc[h] = "respond" /\ hl[h].intent = "batch"
    /\ hl[h].enqueued = 0 /\ hl[h].job = NoJob
    /\ \E k \in Keys : ActiveJobs(k[1], k[2]) # {}

Superseded(j) ==
  jobs[j].status = "FAILED" /\ jobs[j].lastError = SupersededError

\* C7: a forced enqueue marks the active Job FAILED with the superseded
\* error and creates exactly one QUEUED Job; the superseded Job stays FAILED
\* in every later state.
C7_Step ==
  /\ \A h \in Handlers :
       /\ (hpc[h] = "enqSupersede" /\ hpc'[h] = "enqCreate")
            => Superseded(hl[h].existing)'
       /\ (hpc[h] = "enqCreate" /\ hpc'[h] = "enqInsight")
            => /\ DOMAIN jobs' = DOMAIN jobs \cup {nextJobId}
               /\ jobs'[nextJobId].status = "QUEUED"
  /\ \A j \in DOMAIN jobs :
       Superseded(j) => (j \in DOMAIN jobs' /\ jobs'[j].status = "FAILED")

C7_SupersededIsTerminal == [][C7_Step]_vars

\* C8: for every Run, succeeded + failed <= productsQueued.
C8_CountersBounded ==
  \A r \in DOMAIN runs :
    runs[r].succeeded + runs[r].failed <= runs[r].productsQueued

\* a run whose counters account for every product, one of them failed
C8_Witness ==
  \E r \in DOMAIN runs :
    /\ runs[r].failed >= 1
    /\ runs[r].succeeded + runs[r].failed = runs[r].productsQueued

\* C9: a COMPLETED Run has no child Job QUEUED or RUNNING.
C9_CompletedHasNoActiveChild ==
  \A r \in DOMAIN runs : runs[r].status = "COMPLETED" => Pending(r) = 0

\* C10: completedAt of a Run is written at most once.
C10_CompletedAtWrittenOnce ==
  \A r \in DOMAIN completedWrites : completedWrites[r] <= 1

\* the deliveries received so far that carried webhook id e
SameDelivery(e) ==
  {d \in Deliveries : whpc[d] # "idle" /\ whl[d].webhookId = e}

\* C11: of the deliveries carrying one webhook id at most one executes the
\* purge, and when two authenticated deliveries with the same id (sequential
\* or overlapping) have both returned, exactly one has executed the purge
\* and both were answered with 200.
C11_OnePurgeTwoAcks ==
  \A e \in WebhookIds :
    /\ Cardinality({d \in SameDelivery(e) : whl[d].purged}) <= 1
    /\ (/\ SameDelivery(e) = Deliveries
        /\ \A d \in Deliveries : whpc[d] = "done" /\ whl[d].status # 401)
         => /\ Cardinality({d \in Deliveries : whl[d].purged}) = 1
            /\ \A d \in Deliveries : whl[d].status = 200

\* both deliveries of webhook id e1 were acknowledged, one of them purged
C11_Witness ==
  /\ \A d \in Deliveries :
       whpc[d] = "done" /\ whl[d].webhookId = "e1" /\ whl[d].status = 200
  /\ \E d \in Deliveries : whl[d].purged
  /\ \E d \in Deliveries : ~whl[d].purged
  /\ jobs = <<>>

JobsOf(shop) == {j \in DOMAIN jobs : jobs[j].shop = shop}
RunsOf(shop) == {r \in DOMAIN runs : runs[r].shop = shop}
InsightsOf(shop) == {k \in DOMAIN insights : k[1] = shop}

\* C18: a step that deletes a Job, a Run, an Insight or the session of a
\* shop deletes every Job, Run and Insight and the session of that shop, so
\* no state between two store operations shows a purge partly applied.
C18_Step ==
  \A shop \in Shops \cup {OtherShop} :
    LET goneJobs == JobsOf(shop) \ DOMAIN jobs'
        goneRuns == RunsOf(shop) \ DOMAIN runs'
        goneInsights == InsightsOf(shop) \ DOMAIN insights'
        goneSession == shop \in sessions /\ shop \notin sessions'
    IN  (goneJobs # {} \/ goneRuns # {} \/ goneInsights # {} \/ goneSession)
          => /\ goneJobs = JobsOf(shop)
             /\ goneRuns = RunsOf(shop)
             /\ goneInsights = InsightsOf(shop)
             /\ shop \notin sessions'

C18_PurgeAllOrNothing == [][C18_Step]_vars

\* shop s1 was purged while the worker held one of its jobs and a request
\* was about to create another; shop s2 kept its rows
C18_Witness ==
  /\ \E d \in Deliveries : whl[d].purged
  /\ JobsOf("s1") = {} /\ RunsOf("s1") = {} /\ InsightsOf("s1") = {}
  /\ "s1" \notin sessions
  /\ InsightsOf(OtherShop) # {} /\ OtherShop \in sessions
  /\ pc["w1"] = "execute"
  /\ hpc["h1"] = "enqCreate"

\* job j of a run failed in the executor on each of its three claims and
\* its worker has finished with it
FailedThrice(j) ==
  /\ jobs[j].runId \in DOMAIN runs
  /\ jobs[j].status = "FAILED"
  /\ jobs[j].attempts = MAX_ATTEMPTS
  /\ jobs[j].lastError.kind = "executor"
  /\ Holders(j) = {}

\* the rest of C12: lastError is set and Run.failed counts the job once
FailedThriceCountedOnce(j) ==
  /\ jobs[j].lastError # NoError
  /\ runs[jobs[j].runId].failed =
       Cardinality({k \in DOMAIN jobs : /\ FailedThrice(k)
                                        /\ jobs[k].runId = jobs[j].runId})

AllSucceeded(r) ==
  /\ runs[r].succeeded = Cardinality(Products)
  /\ runs[r].failed = 0
  /\ runs[r].status = "COMPLETED"

\* C13: after a batch of 3 distinct products was enqueued for a Run with
\* productsQueued = 3 and every execution succeeds, the Run eventually has
\* succeeded = 3, failed = 0 and status COMPLETED.
C13_BatchEventuallyCompleted == <>AllSucceeded(1)

\* the run is COMPLETED with its three jobs SUCCEEDED and counted
C13_Witness ==
  /\ AllSucceeded(1)
  /\ runs[1].productsQueued = 3
  /\ \A j \in 1..3 : jobs[j].status = "SUCCEEDED"

\* C14: every change of a Job's status is QUEUED -> RUNNING,
\* RUNNING -> SUCCEEDED, RUNNING -> QUEUED (failure below the ceiling),
\* RUNNING -> FAILED (failure at the ceiling, or missing Insight) or
\* QUEUED -> FAILED (forced regenerate); SUCCEEDED and FAILED are final.
C14_Step ==
  \A j \in DOMAIN jobs \cap DOMAIN jobs' :
    LET old == jobs[j].status
        new == jobs'[j].status
    IN  old # new =>
          \/ old = "QUEUED" /\ new = "RUNNING"
          \/ old = "RUNNING" /\ new = "SUCCEEDED"
          \/ old = "RUNNING" /\ new = "QUEUED"
                /\ jobs[j].attempts < MAX_ATTEMPTS
          \/ old = "RUNNING" /\ new = "FAILED"
                /\ \/ jobs[j].attempts >= MAX_ATTEMPTS
                   \/ jobs'[j].lastError = InsightNotFoundError
          \/ old = "QUEUED" /\ new = "FAILED"
                /\ jobs'[j].lastError = SupersededError

C14_StatusTransitions == [][C14_Step]_vars

\* the most recently created Job of a (shop, productId): ids grow with creation
PairJobs(k) ==
  {j \in DOMAIN jobs : Key(jobs[j].shop, jobs[j].productId) = k}

LatestJob(k) == CHOOSE j \in PairJobs(k) : \A i \in PairJobs(k) : i <= j

\* C15: in every state, for every (shop, productId) with an Insight and at
\* least one Job, the aiStatus mirror equals the status of its latest Job.
C15_MirrorFollowsLatestJob ==
  \A k \in DOMAIN insights :
    PairJobs(k) # {} => insights[k].aiStatus = jobs[LatestJob(k)].status

\* C16: the step that sets a Job of a Run SUCCEEDED also sets the Insight
\* mirror SUCCEEDED and adds one to the Run's succeeded counter.
C16_Step ==
  \A j \in DOMAIN jobs \cap DOMAIN jobs' :
    (jobs[j].status # "SUCCEEDED" /\ jobs'[j].status = "SUCCEEDED")
      => /\ Key(jobs[j].shop, jobs[j].productId) \in DOMAIN insights'
         /\ insights'[Key(jobs[j].shop, jobs[j].productId)].aiStatus
              = "SUCCEEDED"
         /\ jobs[j].runId \in DOMAIN runs
              => /\ jobs[j].runId \in DOMAIN runs'
                 /\ runs'[jobs[j].runId].succeeded
                      = runs[jobs[j].runId].succeeded + 1

C16_SuccessIsOneStep == [][C16_Step]_vars

\* C17: a Job is moved QUEUED -> RUNNING only when its nextRetryAt is unset
\* or not later than the time of the claim.
C17_Step ==
  \A j \in DOMAIN jobs \cap DOMAIN jobs' :
    (jobs[j].status = "QUEUED" /\ jobs'[j].status = "RUNNING")
      => (jobs[j].nextRetryAt = NoTime \/ jobs[j].nextRetryAt <= now)

C17_NoClaimBeforeRetryAt == [][C17_Step]_vars

\* C19: computeInventoryStatus returns UNKNOWN for an absent quantity,
\* OUT_OF_STOCK for a quantity <= 0, LOW for one in (0, 10] and OK for one
\* above 10.
C19_InventoryStatus ==
  sig.inventoryStatus # "none" =>
    LET t == sig.totalAvailable
    IN  /\ ~t.present => sig.inventoryStatus = "UNKNOWN"
        /\ (t.present /\ t.value <= 0) => sig.inventoryStatus = "OUT_OF_STOCK"
        /\ (t.present /\ 0 < t.value /\ t.value <= 10)
             => sig.inventoryStatus = "LOW"
        /\ (t.present /\ t.value > 10) => sig.inventoryStatus = "OK"

\* the quantity at the threshold was classified
C19_Witness ==
  /\ sig.totalAvailable = Some(10)
  /\ sig.inventoryStatus = "LOW"

\* C20: the score of computeConfidence lies in [0.10, 0.95], and with
\* daysSinceUpdated fixed it does not decrease when one of hasStatus,
\* hasImage, hasInventory changes from false to true.
C20_ConfidenceBoundedMonotone ==
  sig.score # NoScore =>
    /\ 10 <= sig.score /\ sig.score <= 95
    /\ ~sig.hasStatus =>
         computeConfidence([sig EXCEPT !.hasStatus = TRUE]) >= sig.score
    /\ ~sig.hasImage =>
         computeConfidence([sig EXCEPT !.hasImage = TRUE]) >= sig.score
    /\ ~sig.hasInventory =>
         computeConfidence([sig EXCEPT !.hasInventory = TRUE]) >= sig.score

\* two signals and a recent update: one more signal would hit the clamp
C20_Witness ==
  /\ sig.hasStatus /\ sig.hasImage /\ ~sig.hasInventory
  /\ IsRecent(sig.daysSinceUpdated)
  /\ sig.score = 85
  /\ computeConfidence([sig EXCEPT !.hasInventory = TRUE]) = 95

\* the Jobs created for Run r (no Job of a Run is deleted while it exists)
JobsOfRun(r) == {j \in DOMAIN jobs : jobs[j].runId = r}

\* C21: whatever number of product ids a batch request submits, the Run it
\* creates has productsQueued <= 10 and at most 10 Jobs are created for it.
C21_BatchCapped ==
  \A r \in DOMAIN runs :
    /\ runs[r].productsQueued <= 10
    /\ Cardinality(JobsOfRun(r)) <= 10

\* a request that submitted more than 10 ids is about to report 10 enqueued
C21_Witness ==
  /\ hpc["h1"] = "respond"
  /\ hl["h1"].submitted > 10
  /\ hl["h1"].enqueued = 10
  /\ runs[1].productsQueued = 10
  /\ Cardinality(JobsOfRun(1)) = 10

\* worker w is running the failure transaction of processJob for a Job
\* whose attempts counter is below the ceiling
RetryCase(w) ==
  /\ pc[w] = "failTx" /\ pc'[w] # "failTx"
  /\ wl[w].job \in DOMAIN jobs
  /\ Key(wl[w].shop, wl[w].productId) \in DOMAIN insights
  /\ jobs[wl[w].job].attempts < 3

\* what C22 says of that step apart from lastError
RetryScheduled(w) ==
  LET j == wl[w].job
      k == Key(wl[w].shop, wl[w].productId)
  IN  /\ jobs'[j].status = "QUEUED"
      /\ jobs'[j].nextRetryAt =
            now + (IF jobs[j].attempts = 1 THEN 2000 ELSE 5000)
      /\ insights'[k].aiStatus = "QUEUED"
      /\ insights'[k].aiError = NoError
      /\ runs' = runs
      /\ pc'[w] # "runFailed"

\* C22 as stated: a failure below the ceiling sets the Job QUEUED with
\* nextRetryAt = now + backoff(attempts - 1) and lastError = the failure
\* message, the mirror QUEUED with aiError cleared, and leaves Run.failed.
C22_Step ==
  \A w \in Workers :
    RetryCase(w) =>
      /\ RetryScheduled(w)
      /\ jobs'[wl[w].job].lastError = wl[w].message

C22_RetryKeepsMessage == [][C22_Step]_vars

\* C22 amended: lastError is the failure message cut to its first 500
\* characters; the rest as stated.
C22_StepTruncated ==
  \A w \in Workers :
    RetryCase(w) =>
      /\ RetryScheduled(w)
      /\ jobs'[wl[w].job].lastError.kind = wl[w].message.kind
      /\ jobs'[wl[w].job].lastError.len =
            (IF wl[w].message.len <= 500 THEN wl[w].message.len ELSE 500)

C22_RetryKeepsTruncatedMessage == [][C22_StepTruncated]_vars

\* a Job of a Run has just been requeued after its second failure
C22_Witness ==
  \E j \in DOMAIN jobs :
    /\ jobs[j].status = "QUEUED" /\ jobs[j].attempts = 2
    /\ jobs[j].nextRetryAt = now + 5000
    /\ jobs[j].lastError.kind = "executor"
    /\ jobs[j].runId \in DOMAIN runs /\ runs[jobs[j].runId].failed = 0
    /\ insights[Key(jobs[j].shop, jobs[j].productId)].aiStatus = "QUEUED"
    /\ insights[Key(jobs[j].shop, jobs[j].productId)].aiError = NoError

\* Job j is FAILED at the retry ceiling by a failed execution, and the
\* processJob call that failed it has made its run.update
ExhaustedAndReported(j) ==
  /\ jobs[j].status = "FAILED"
  /\ jobs[j].attempts >= 3
  /\ jobs[j].lastError # InsightNotFoundError
  /\ Holders(j) = {}

\* Run.failed changes only by the run.update of a processJob call that has
\* set a Job of the Run FAILED at the ceiling, and then by one
C23_Step ==
  \A r \in DOMAIN runs \cap DOMAIN runs' :
    runs'[r].failed # runs[r].failed =>
      /\ runs'[r].failed = runs[r].failed + 1
      /\ \E w \in Workers :
           /\ pc[w] = "runFailed" /\ pc'[w] # "runFailed"
           /\ wl[w].job \in JobsOfRun(r)
           /\ jobs[wl[w].job].status = "FAILED"
           /\ jobs[wl[w].job].attempts >= 3

C24_BackoffSchedule ==
  sig.backoffMs # NoDelay =>
    LET i == sig.attemptIndex
    IN  /\ i = 0 => sig.backoffMs = 2000
        /\ i = 1 => sig.backoffMs = 5000
        /\ i = 2 => sig.backoffMs = 10000
        /\ i >= 3 => sig.backoffMs = 10000

\* the delay for the first index beyond the table was computed
C24_Witness ==
  /\ sig.attemptIndex = 3
  /\ sig.backoffMs = 10000

\* job k is QUEUED with nextRetryAt unset or <= now, and older than job j
OlderEligible(k, j) ==
  /\ k # j
  /\ Eligible(k)
  /\ jobs[k].createdAt < jobs[j].createdAt

\* C25 as stated: at the moment a Job is moved QUEUED -> RUNNING, no other
\* Job that is QUEUED with nextRetryAt unset or <= now has an earlier
\* createdAt.
C25_StepAtMove ==
  \A j \in DOMAIN jobs \cap DOMAIN jobs' :
    (jobs[j].status = "QUEUED" /\ jobs'[j].status = "RUNNING")
      => ~\E k \in DOMAIN jobs : OlderEligible(k, j)

C25_OldestAtMove == [][C25_StepAtMove]_vars

\* C25 amended: the Job a claim moves QUEUED -> RUNNING is the one its
\* findFirst selected, and at the moment of the selection that Job was
\* QUEUED with nextRetryAt unset or <= now and no other such Job had an
\* earlier createdAt.
C25_StepAtSelection ==
  /\ \A w \in Workers :
       (pc[w] = "poll" /\ pc'[w] = "claimUpdate")
         => /\ wl'[w].cand \in DOMAIN jobs
            /\ Eligible(wl'[w].cand)
            /\ ~\E k \in DOMAIN jobs : OlderEligible(k, wl'[w].cand)
  /\ \A j \in DOMAIN jobs \cap DOMAIN jobs' :
       (jobs[j].status = "QUEUED" /\ jobs'[j].status = "RUNNING")
         => \E w \in Workers :
              /\ pc[w] = "claimUpdate" /\ wl[w].cand = j
              /\ wl'[w].job = j

C25_OldestAtSelection == [][C25_StepAtSelection]_vars

\* the younger Job was claimed first while the older one waited for its
\* retry, and the older one is eligible again
C25_Witness ==
  \E j, k \in DOMAIN jobs :
    /\ jobs[k].createdAt < jobs[j].createdAt
    /\ jobs[j].status = "RUNNING" /\ jobs[j].attempts = 1
    /\ Eligible(k) /\ jobs[k].attempts >= 1

\* the candidate worker w read has been changed by another caller
CandidateChanged(w) ==
  /\ pc[w] = "claimUpdate"
  /\ wl[w].cand \in DOMAIN jobs
  /\ \/ jobs[wl[w].cand].status # "QUEUED"
     \/ jobs[wl[w].cand].updatedAt # wl[w].candUpdatedAt

\* C26: when the fenced update of claimNextJob matches no row because
\* another caller changed the candidate first, the call returns null (an
\* empty poll, not an error) and changes no Job, Insight or Run.
C26_Step ==
  \A w \in Workers :
    (CandidateChanged(w) /\ pc'[w] # "claimUpdate")
      => /\ jobs' = jobs /\ insights' = insights /\ runs' = runs
         /\ pc'[w] \in {"poll", "urFind"}
         /\ wl'[w].job = NoJob
         /\ wl'[w].consecutiveEmpty =
              (wl[w].consecutiveEmpty + 1) % EmptyPollsPerReconcile

C26_LostRaceReturnsNull == [][C26_Step]_vars

\* a worker is about to run its fenced update on a candidate that another
\* worker has claimed at a later instant, failed and requeued
C26_Witness ==
  \E w \in Workers :
    /\ CandidateChanged(w)
    /\ jobs[wl[w].cand].status = "QUEUED"
    /\ jobs[wl[w].cand].attempts = wl[w].attempts + 1

\* Job j was marked FAILED for its missing Insight
NotFound(j) ==
  jobs[j].status = "FAILED" /\ jobs[j].lastError = InsightNotFoundError

\* C27: a claim that finds no Insight for the (shop, productId) of its Job
\* marks the Job FAILED with the insight-not-found error and returns null;
\* the executor is not invoked for the Job, and the Job is never QUEUED or
\* claimed (RUNNING) again for as long as its row exists.
C27_Step ==
  /\ \A w \in Workers :
       (/\ pc[w] = "claimInsight" /\ pc'[w] # "claimInsight"
        /\ Key(wl[w].shop, wl[w].productId) \notin DOMAIN insights)
         => pc'[w] = "claimNoInsight"
  /\ \A w \in Workers :
       (/\ pc[w] = "claimNoInsight" /\ pc'[w] # "claimNoInsight"
        /\ wl[w].job \in DOMAIN jobs)
         => /\ jobs[wl[w].job].status = "RUNNING"
            /\ jobs'[wl[w].job].status = "FAILED"
            /\ jobs'[wl[w].job].lastError = InsightNotFoundError
            /\ pc'[w] \in {"poll", "urFind"}
            /\ wl'[w].job = NoJob
  /\ \A j \in DOMAIN jobs :
       NotFound(j) =>
         /\ j \in DOMAIN jobs' => /\ jobs'[j].status = "FAILED"
                                  /\ jobs'[j].attempts = jobs[j].attempts
         /\ \A w \in Workers : wl'[w].job # j

C27_MissingInsightIsFatal == [][C27_Step]_vars

\* a Job failed on its first claim for its missing Insight and its worker
\* has polled again since, with nothing to claim
C27_Witness ==
  \E j \in DOMAIN jobs, w \in Workers :
    /\ NotFound(j) /\ jobs[j].attempts = 1
    /\ Key(jobs[j].shop, jobs[j].productId) \notin DOMAIN insights
    /\ Holders(j) = {}
    /\ pc[w] = "poll" /\ wl[w].consecutiveEmpty >= 2

\* C28: updateRunCompletion changes only Runs that are RUNNING and have no
\* child Job QUEUED or RUNNING, and it changes neither the status, the
\* counters nor completedAt of a Run that is already COMPLETED.
C28_Step ==
  \A w \in Workers :
    (pc[w] = "urUpdate" /\ pc'[w] # "urUpdate") =>
      \A r \in DOMAIN runs \cap DOMAIN runs' :
        /\ runs'[r] # runs[r] =>
             runs[r].status = "RUNNING" /\ Pending(r) = 0
        /\ runs[r].status = "COMPLETED" =>
             /\ runs'[r] = runs[r]
             /\ completedWrites'[r] = completedWrites[r]

C28_ReconcileIdempotent == [][C28_Step]_vars

\* C29: enqueueBatch returns exactly the number of Jobs it created, each
\* created QUEUED and linked to runId; a product id that has an active Job
\* when it is looked up (an id repeated earlier in the list included)
\* creates no Job and is not counted.
C29_Step ==
  \A h \in Handlers :
    hl[h].intent = "batch" =>
      /\ (hpc[h] = "enqCreate" /\ hpc'[h] = "enqInsight")
           => /\ DOMAIN jobs' = DOMAIN jobs \cup {nextJobId}
              /\ jobs'[nextJobId].status = "QUEUED"
              /\ jobs'[nextJobId].runId = hl[h].runId
              /\ jobs'[nextJobId].productId = Head(hl[h].productIds)
      /\ (/\ hpc[h] = "enqFind" /\ HandlerMoved(h)
          /\ ActiveJobs(hl[h].shop, Head(hl[h].productIds)) # {})
           => /\ jobs' = jobs
              /\ hl'[h].enqueued = hl[h].enqueued
              /\ hpc'[h] \in {"enqFind", "respond"}
      /\ (hpc[h] # "respond" /\ hpc'[h] = "respond")
           => hl'[h].enqueued = Cardinality(JobsOfRun(hl[h].runId)')

C29_BatchCountsCreatedJobs == [][C29_Step]_vars

\* a batch naming the same product twice is about to return 1: its first
\* id created the Job that is still active, its second id was skipped
C29_Witness ==
  \E h \in Handlers :
    /\ hpc[h] = "respond" /\ hl[h].intent = "batch"
    /\ hl[h].submitted = 2 /\ hl[h].enqueued = 1
    /\ JobsOfRun(hl[h].runId) # {}
    /\ \A j \in JobsOfRun(hl[h].runId) : IsActive(j)

\* C30: the WebhookEvent row of a delivery id stays once inserted, also
\* when the purge that follows the insert fails, and every delivery with
\* that id received after the insert is answered with 200 without a purge
\* being attempted: its first step returns and writes nothing.
C30_Step ==
  /\ webhookEvents \subseteq webhookEvents'
  /\ \A d \in Deliveries :
       (/\ whpc[d] = "idle" /\ whpc'[d] # "idle"
        /\ whl'[d].webhookId \in webhookEvents)
         => /\ whpc'[d] = "done"
            /\ whl'[d].status = 200
            /\ ~whl'[d].purged
            /\ UNCHANGED <<jobs, runs, insights, sessions, webhookEvents>>

C30_FailedPurgeNotRetried == [][C30_Step]_vars

\* the purge of one delivery failed after its row was inserted; the other
\* delivery of the same id was answered with 200 and the shop keeps its data
C30_Witness ==
  \E d1, d2 \in Deliveries :
    /\ whpc[d1] = "done" /\ whl[d1].status = 500
    /\ whl[d1].webhookId \in webhookEvents
    /\ whpc[d2] = "done" /\ whl[d2].status = 200 /\ ~whl[d2].purged
    /\ whl[d2].webhookId = whl[d1].webhookId
    /\ JobsOf("s1") # {} /\ "s1" \in sessions

\* C31: a delivery reaches the insert of the WebhookEvent row and the purge
\* only through a successful authentication; a delivery whose authentication
\* fails is answered with 401, inserts no WebhookEvent row and deletes
\* nothing, so its webhook id is recorded afterwards only if it was before.
C31_Step ==
  /\ \A d \in Deliveries :
       /\ (whpc[d] = "whAuth" /\ whpc'[d] = "done")
            => /\ whl'[d].status = 401
               /\ ~whl'[d].purged
               /\ UNCHANGED <<webhookEvents, jobs, runs, insights, sessions>>
       /\ (whpc'[d] \in {"whCreate", "whPurge"} /\ whpc[d] # whpc'[d])
            => whpc[d] \in {"whAuth", "whCreate"}
       /\ (whl'[d].status = 401 /\ whl[d].status # 401) => whpc[d] = "whAuth"
  /\ webhookEvents' # webhookEvents => \E d \in Deliveries : whpc[d] = "whCreate"
  /\ (\/ ~(DOMAIN jobs \subseteq DOMAIN jobs')
      \/ ~(DOMAIN runs \subseteq DOMAIN runs')
      \/ ~(DOMAIN insights \subseteq DOMAIN insights')
      \/ ~(sessions \subseteq sessions'))
       => \E d \in Deliveries : whpc[d] = "whPurge" /\ whpc'[d] = "done"

C31_AuthBeforeInsertAndPurge ==
  /\ [](\A d \in Deliveries : whl[d].status = 401 => ~whl[d].purged)
  /\ [][C31_Step]_vars

\* a delivery of webhook id e1 failed authentication; the later genuine
\* delivery of e1 was not skipped: it inserted the row and purged shop s1
C31_Witness ==
  \E d1, d2 \in Deliveries :
    /\ whpc[d1] = "done" /\ whl[d1].status = 401 /\ whl[d1].webhookId = "e1"
    /\ whpc[d2] = "done" /\ whl[d2].status = 200 /\ whl[d2].webhookId = "e1"
    /\ whl[d2].purged
    /\ "e1" \in webhookEvents
    /\ JobsOf("s1") = {} /\ "s1" \notin sessions

\* the next store operation of worker w throws out of tick() or
\* updateRunCompletion(): the row it updates is gone
Throws(w) ==
  LET k == Key(wl[w].shop, wl[w].productId)
  IN  \/ pc[w] = "claimNoInsight" /\ wl[w].job \notin DOMAIN jobs
      \/ pc[w] = "claimMirror" /\ k \notin DOMAIN insights
      \/ pc[w] = "failTx" /\ (k \notin DOMAIN insights \/ wl[w].job \notin DOMAIN jobs)
      \/ pc[w] = "runFailed" /\ wl[w].runId \notin DOMAIN runs
      \/ pc[w] = "urUpdate" /\ wl[w].run \notin DOMAIN runs

\* C32: when an operation of a worker's tick or run reconciliation throws,
\* the worker is next at the head of its loop, about to poll again, with
\* its count of empty polls as it was; the step writes nothing to the store
\* and changes no request handler, so the error reaches no caller of
\* enqueue.  A worker is never anywhere but in its loop.
C32_Step ==
  \A w \in Workers :
    (Throws(w) /\ <<pc[w], wl[w]>> # <<pc'[w], wl'[w]>>)
      => /\ pc'[w] = "poll"
         /\ wl'[w] = [WorkerIdle EXCEPT
                        !.consecutiveEmpty = wl[w].consecutiveEmpty,
                        !.caught = TRUE]
         /\ UNCHANGED <<storeVars, handlerVars>>

LoopPositions ==
  {"poll", "claimUpdate", "claimInsight", "claimNoInsight", "claimMirror",
   "execute", "successTx", "runSucceeded", "failRead", "failTx", "runFailed",
   "urFind", "urCount", "urUpdate"}

C32_ErrorsAbsorbedByLoop ==
  /\ [](\A w \in Workers : pc[w] \in LoopPositions)
  /\ [][C32_Step]_vars

\* the last iteration of the worker's loop ended in the catch of main(), and
\* the worker has polled again since and found a job
C32_Witness ==
  \E w \in Workers :
    /\ wl[w].caught
    /\ pc[w] = "claimUpdate"
    /\ \E d \in Deliveries : whl[d].purged

\* C33: every lastError of a Job and every aiError of an Insight is at most
\* 500 characters long, whatever the length of the message the executor
\* failed with.
C33_ErrorsTruncated ==
  /\ \A j \in DOMAIN jobs : jobs[j].lastError.len <= ErrorSliceLen
  /\ \A k \in DOMAIN insights : insights[k].aiError.len <= ErrorSliceLen

\* the executor failed the last attempt of a job with a message longer than
\* 500 characters; the Job and its Insight keep the first 500
C33_Witness ==
  \E w \in Workers :
    /\ pc[w] = "runFailed"
    /\ wl[w].message.len > ErrorSliceLen
    /\ jobs[wl[w].job].status = "FAILED"
    /\ jobs[wl[w].job].lastError = [wl[w].message EXCEPT !.len = ErrorSliceLen]
    /\ insights[Key(wl[w].shop, wl[w].productId)].aiError
         = [wl[w].message EXCEPT !.len = ErrorSliceLen]

\* job j was claimed by a worker that died before writing its outcome
Orphan(j) ==
  /\ j \in DOMAIN jobs
  /\ jobs[j].status = "RUNNING"
  /\ \E w \in Workers : pc[w] = "crashed" /\ wl[w].job = j

\* C34: while no forced regenerate and no purge happens, a Job left RUNNING
\* by a worker that died after claiming it is changed by no operation of
\* the other workers, so it stays RUNNING, and its Run is never set
\* COMPLETED.
C34_Step ==
  \A j \in DOMAIN jobs :
    Orphan(j) => /\ j \in DOMAIN jobs'
                 /\ jobs'[j] = jobs[j]
                 /\ (jobs[j].runId # NoRun
                     /\ runs[jobs[j].runId].status = "RUNNING")
                      => runs'[jobs[j].runId].status = "RUNNING"

C34_OrphanStaysRunning == [][C34_Step]_vars

Terminal(j) == jobs[j].status \in {"SUCCEEDED", "FAILED"}

\* C35: with one worker that keeps polling, an executor that returns or
\* throws on every call, and no crash, forced regenerate or purge, every
\* Job of the queue is eventually SUCCEEDED or FAILED for good, and no Job
\* is ever claimed more than 3 times.
C35_EveryJobTerminates ==
  /\ [](\A j \in DOMAIN jobs : jobs[j].attempts <= MAX_ATTEMPTS)
  /\ <>[](\A j \in DOMAIN jobs : Terminal(j))

\* both jobs needed all three claims: one succeeded on the third, the other
\* failed it
C35_Witness ==
  /\ DOMAIN jobs = {1, 2}
  /\ jobs[1].status = "SUCCEEDED" /\ jobs[1].attempts = MAX_ATTEMPTS
  /\ jobs[2].status = "FAILED" /\ jobs[2].attempts = MAX_ATTEMPTS
  /\ Len(delays[1]) = 2 /\ Len(delays[2]) = 2

\* C36: with a worker that keeps polling and no further arrivals, a Run
\* whose child Jobs are all SUCCEEDED or FAILED is eventually COMPLETED,
\* although the reconciliation runs only on every 5th consecutive empty
\* poll and the count restarts after every poll that did work.
C36_TerminalRunEventuallyCompleted ==
  \A r \in 1..MaxRuns :
    (r \in DOMAIN runs /\ \A j \in JobsOfRun(r) : Terminal(j))
      ~> (r \in DOMAIN runs /\ runs[r].status = "COMPLETED")

\* the run was completed after its jobs used all their claims: the count of
\* empty polls restarted after each of the six processed claims
C36_Witness ==
  /\ DOMAIN jobs = {1, 2}
  /\ \A j \in JobsOfRun(1) : Terminal(j) /\ jobs[j].attempts = MAX_ATTEMPTS
  /\ JobsOfRun(1) = {1, 2}
  /\ runs[1].status = "COMPLETED" /\ runs[1].completedAt > 0
  /\ runs[1].succeeded + runs[1].failed = 2

\* worker w is inside claimNextJob or processJob
InTick(w) == pc[w] \notin {"poll", "urFind", "urCount", "urUpdate"}

\* C37: when the purge of shop s1 has committed and no request handler is
\* inside enqueueInsightJob or enqueueBatch and no worker inside
\* claimNextJob or processJob, the store holds no Job, Run or Insight of
\* shop s1.
C37_NothingLeftAfterPurge ==
  (/\ \E d \in Deliveries : whl[d].purged /\ whl[d].shop = "s1"
   /\ \A h \in Handlers : hpc[h] = "idle"
   /\ \A w \in Workers : ~InTick(w))
    => (JobsOf("s1") = {} /\ RunsOf("s1") = {} /\ InsightsOf("s1") = {})

\* C38: every Job has 0 <= attempts <= 3, under any interleaving of
\* enqueues, forced regenerates and workers.
C38_AttemptsWithinCeiling ==
  \A j \in DOMAIN jobs : jobs[j].attempts >= 0 /\ jobs[j].attempts <= MAX_ATTEMPTS

\* a job superseded by a forced regenerate while RUNNING was requeued by the
\* failure of its execution and is RUNNING on its third claim, while the job
\* that replaced it waits
C38_Witness ==
  \E j, k \in DOMAIN jobs :
    /\ j # k
    /\ jobs[j].status = "RUNNING" /\ jobs[j].attempts = MAX_ATTEMPTS
    /\ jobs[j].lastError.kind = "executor"
    /\ jobs[k].status = "QUEUED" /\ jobs[k].productId = jobs[j].productId
    /\ jobs[k].createdAt > jobs[j].createdAt

\* worker w is inside processJob
InProcessJob(w) ==
  pc[w] \in {"execute", "successTx", "runSucceeded", "failRead", "failTx", "runFailed"}

\* C39: for every COMPLETED Run none of whose Jobs a worker is processing,
\* succeeded + failed is the number of its child Jobs that are SUCCEEDED or
\* FAILED, Jobs failed for a missing Insight and superseded Jobs included.
C39_CompletedRunCountsTerminalJobs ==
  \A r \in DOMAIN runs :
    (/\ runs[r].status = "COMPLETED"
     /\ \A w \in Workers : InProcessJob(w) => wl[w].runId # r)
      => runs[r].succeeded + runs[r].failed
           = Cardinality({j \in JobsOfRun(r) : Terminal(j)})

\* C40: when the update of the Run's succeeded counter fails after the
\* success transaction has committed, the Job stays SUCCEEDED and its
\* Insight mirror stays SUCCEEDED: no later step of processJob requeues the
\* Job, marks it FAILED or overwrites the Insight status.
C40_Step ==
  \A w \in Workers :
    (/\ pc[w] \in {"runSucceeded", "failRead", "failTx", "runFailed"}
     /\ wl[w].job \in DOMAIN jobs
     /\ jobs[wl[w].job].status = "SUCCEEDED")
      => /\ jobs'[wl[w].job].status = "SUCCEEDED"
         /\ insights'[Key(wl[w].shop, wl[w].productId)].aiStatus = "SUCCEEDED"

C40_SuccessSurvivesCounterFailure == [][C40_Step]_vars

====
